---- MODULE Spec2Model ----
(***************************************************************************)
(* Model of pylot/simulator.py: the Simulator class, its physics process  *)
(* (_run_physics), the render side (run_sim, _update_graphics) and the    *)
(* manager-backed shared objects they exchange state through.             *)
(*                                                                         *)
(* Time is counted in integer ticks of the wall clock; floats are         *)
(* integers plus the one value NaN.  Each shared-object access of the     *)
(* source (a proxy call to the manager) is one atomic step.               *)
(***************************************************************************)
EXTENDS Integers, Sequences, FiniteSets, TLC

\* ---------------------------------------------------------------- bounds
MaxClock == 1          \* the wall clock stops ticking here
MaxSteps == 3          \* the step counter (a history variable) saturates here
TfReal   == 0          \* the finite final time of a real-time configuration
TfFixed  == 2          \* the final time of a fixed-step configuration
DtChoices == {1, 2}    \* the fixed step sizes a configuration may ask for
RkMaxDt  == 2          \* the largest step size a single _RK4 call is tried with

\* ------------------------------------------------------------- constants
T0 == 0                \* simulation.start_time default
NumViews == 2          \* self._num_views
NaN == 0 - 99          \* the float NaN
Unbound == 0 - 1       \* a local variable that was never assigned
NState == 13           \* len(aircraft.y)
NSlots == 16           \* len(self._state_manager)

InputKeys == {"pause", "data", "quit", "view"}

\* keys run_sim reads from the graphics metadata, in the order it reads them
RequiredKeys == <<"obj_file", "v_shader_file", "f_shader_file", "texture_file",
                  "position", "orientation", "l_ref_lat", "l_ref_lon">>

\* the derivative providers and graphics infos an aircraft may come with
Fields == {"zero", "sink", "nan"}
RkFields == Fields \cup {"climb", "grow"}     \* tried on single _RK4 calls
ConstantFields == RkFields \ {"grow"}
FullInfo == <<"obj_file", "v_shader_file", "f_shader_file", "texture_file",
              "l_ref_lat", "l_ref_lon">>
PartInfo == <<"obj_file", "v_shader_file", "f_shader_file", "texture_file",
              "l_ref_lat">>
InfoChoices == {FullInfo, PartInfo}
InitialZ == 0 - 1      \* the aircraft starts one length unit above ground

\* ------------------------------------------------------- float arithmetic
IsNaN(a) == a = NaN
fadd(a, b) == IF IsNaN(a) \/ IsNaN(b) THEN NaN ELSE a + b
fmul(a, b) == IF IsNaN(a) \/ IsNaN(b) THEN NaN ELSE a * b
fdiv(a, n) == IF IsNaN(a) \/ n = 0 THEN NaN ELSE a \div n
fgt(a, b)  == IF IsNaN(a) \/ IsNaN(b) THEN FALSE ELSE a > b

VAdd(a, b) == [i \in 1..NState |-> fadd(a[i], b[i])]
VScale(s, a) == [i \in 1..NState |-> fmul(s, a[i])]
VDiv(a, n) == [i \in 1..NState |-> fdiv(a[i], n)]
Zero13 == [i \in 1..NState |-> 0]

\* ------------------------------------------------------------- variables
VARIABLES
  real_time, render_graphics, tf, field, info,      \* configuration
  state_manager, quit, pause, graphics_ready, view, \* shared objects
  flight_data, aircraft_graphics_info, control_settings,
  ppc, paused, y, t, dt, t0, t1, pgi,               \* physics process
  rpc, got, ry, rdt, rt, rts, cam,                \* render side
  now,                                              \* wall clock
  nsteps, nprime, slotStep, rStep,                  \* history
  rk                                                \* the locals of _RK4

config  == <<real_time, render_graphics, tf, field, info>>
shared  == <<state_manager, quit, pause, graphics_ready, view,
             flight_data, aircraft_graphics_info, control_settings>>
plocal  == <<ppc, paused, y, t, dt, t0, t1, pgi>>
rlocal  == <<rpc, got, ry, rdt, rt, rts, cam>>
history == <<nsteps, nprime, slotStep, rStep>>
vars    == <<config, shared, plocal, rlocal, now, history, rk>>

\* ------------------------------------------------- the aircraft (external)
\* aircraft.y after _load_aircraft: at rest, level, at height -z0
InitialState(z0) ==
  [i \in 1..NState |-> IF i = 9 THEN z0 ELSE IF i = 10 THEN 1 ELSE 0]

\* aircraft.dy_dt(t), reading aircraft.y
dy_dt(f, yv, tt) ==
  [i \in 1..NState |->
     CASE f = "zero" -> 0
       [] f = "sink" -> IF i = 9 \/ i = 10 THEN 2 ELSE 0
       [] f = "nan"  -> IF i = 1 THEN NaN ELSE 0
       [] f = "climb" -> IF i = 1 THEN 4 ELSE IF i = 9 THEN 0 - 2 ELSE 0
       [] f = "grow" -> fmul(6, yv[i])]

\* aircraft.normalize(): the quaternion (slots 10..13) scaled to unit length
QuatNorm(yv) ==
  IF \E i \in 10..13 : IsNaN(yv[i]) THEN NaN
  ELSE LET n2 == yv[10]*yv[10] + yv[11]*yv[11] + yv[12]*yv[12] + yv[13]*yv[13]
       IN  CHOOSE r \in 0..n2 : r * r = n2

Normalize(yv) ==
  LET r == QuatNorm(yv)
  IN  [i \in 1..NState |->
         IF i < 10 THEN yv[i]
         ELSE IF IsNaN(r) THEN NaN ELSE fdiv(yv[i], r)]

\* ------------------------------------------------------------------- _RK4
\* aircraft.y = y0+0.5*dt*k0, y0+0.5*dt*k1, y0+dt*k2: base + (h/d)*k
Trial(base, k, h, d) == VAdd(base, VDiv(VScale(h, k), d))

\* aircraft.y = y0+0.16666666666666666666667*(k0+2*k1+2*k2+k3)*dt
RK4ResultEqualWeights(base, k0, k1, k2, k3, h) ==
  VAdd(base, VDiv(VScale(h, VAdd(VAdd(k0, k1), VAdd(k2, k3))), 6))
RK4Result(base, k0, k1, k2, k3, h) ==
  LET ks == VAdd(VAdd(k0, VScale(2, k1)), VAdd(VScale(2, k2), k3))
  IN  VAdd(base, VDiv(VScale(h, ks), 6))

\* the state one whole call leaves in aircraft.y
RK4(f, y0, tt, h) ==
  LET k0 == dy_dt(f, y0, tt)
      y1 == Trial(y0, k0, h, 2)
      k1 == dy_dt(f, y1, tt + (h \div 2))
      y2 == Trial(y0, k1, h, 2)
      k2 == dy_dt(f, y2, tt + (h \div 2))
      y3 == Trial(y0, k2, h, 1)
      k3 == dy_dt(f, y3, tt + h)
  IN  RK4Result(y0, k0, k1, k2, k3, h)

\* the locals y0, k0..k3 of a call, and where it stands
RkIdle == [pc |-> "idle", y0 |-> Zero13, k0 |-> Zero13, k1 |-> Zero13,
           k2 |-> Zero13, k3 |-> Zero13]

\* ---------------------------------------------------------------- __init__
Constructed ==
  /\ state_manager = [i \in 1..NSlots |-> 0]
  /\ quit = 0
  /\ pause = 0
  /\ graphics_ready = 0
  /\ view = 1
  /\ flight_data = 0
  /\ aircraft_graphics_info = {}
  /\ control_settings = FALSE
  /\ ppc = "idle"
  /\ paused = FALSE
  /\ t = T0
  /\ t0 = Unbound
  /\ t1 = Unbound
  /\ pgi = 1
  /\ rpc = "start"
  /\ got = {}
  /\ ry = Zero13
  /\ rdt = 0
  /\ rt = 0
  /\ rts = 0
  /\ cam = "none"
  /\ now = 0
  /\ nsteps = 0
  /\ nprime = 0
  /\ slotStep = <<0, 0, 0, 0>>
  /\ rStep = <<0, 0, 0, 0>>
  /\ rk = RkIdle

Init ==
  /\ real_time \in BOOLEAN
  /\ render_graphics \in BOOLEAN
  /\ tf = (IF real_time THEN TfReal ELSE TfFixed)
  /\ field \in Fields
  /\ info \in InfoChoices
  /\ y = Zero13
  /\ dt \in (IF real_time THEN {0} ELSE DtChoices)
  /\ Constructed

\* ------------------------------------------------------------ wall clock
\* time.time(): no earlier than the reading before it; 'now' is the latest
\* reading
ClockReads(last) == last..MaxClock

\* ======================================================== _run_physics
Bump(n) == IF n < MaxSteps THEN n + 1 ELSE n

\* self._paused = False; self._load_aircraft()
PLoad ==
  /\ ppc = "load"
  /\ y' = InitialState(InitialZ)
  /\ paused' = FALSE
  /\ ppc' = IF render_graphics THEN "gfx" ELSE "t0"
  /\ UNCHANGED <<rk, config, shared, t, dt, t0, t1, pgi, rlocal, now, history>>

\* the keys the physics writes to the metadata map, in the order it writes them
GraphicsKeysInfoOnly(inf) == inf
GraphicsKeys(inf) == inf \o <<"position", "orientation">>

\* self._aircraft_graphics_info[key] = value, one key per proxy call
PGfxInfo ==
  /\ ppc = "gfx"
  /\ aircraft_graphics_info' =
       aircraft_graphics_info \cup {GraphicsKeys(info)[pgi]}
  /\ IF pgi < Len(GraphicsKeys(info))
       THEN pgi' = pgi + 1 /\ ppc' = ppc
       ELSE pgi' = pgi /\ ppc' = "wait"
  /\ UNCHANGED <<rk, config, state_manager, quit, pause, graphics_ready, view,
                 flight_data, control_settings, paused, y, t, dt, t0, t1,
                 rlocal, now, history>>

\* while not self._graphics_ready.value: continue
WaitOverAlways(ready) == TRUE
WaitOver(ready) == ready # 0

PWait ==
  /\ ppc = "wait"
  /\ WaitOver(graphics_ready)
  /\ ppc' = "t0"
  /\ UNCHANGED <<rk, config, shared, paused, y, t, dt, t0, t1, pgi, rlocal, now,
                 history>>

\* t0 = time.time()
PT0 ==
  /\ ppc = "t0"
  /\ \E c \in ClockReads(now) : now' = c /\ t0' = c
  /\ ppc' = IF real_time THEN "prime" ELSE "tinit"
  /\ UNCHANGED <<rk, config, shared, paused, y, t, dt, t1, pgi, rlocal, history>>

\* the step size of the priming call
PrimeStepConfigured == CHOOSE d \in DtChoices : TRUE
PrimeStep == 0

\* the priming step: self._RK4(self._aircraft, self._t0, 0.0)
PPrime ==
  /\ ppc = "prime"
  /\ y' = RK4(field, y, T0, PrimeStep)
  /\ nprime' = Bump(nprime)
  /\ ppc' = "prime_norm"
  /\ UNCHANGED <<rk, config, shared, paused, t, dt, t0, t1, pgi, rlocal, now,
                 nsteps, slotStep, rStep>>

\* self._aircraft.normalize(); output_state(self._t0)
PPrimeNorm ==
  /\ ppc = "prime_norm"
  /\ y' = Normalize(y)
  /\ ppc' = "prime_t1"
  /\ UNCHANGED <<rk, config, shared, paused, t, dt, t0, t1, pgi, rlocal, now,
                 history>>

\* self._dt = t1-t0
ElapsedSwapped(later, earlier) == earlier - later
Elapsed(later, earlier) == later - earlier

\* t1 = time.time(); self._dt = t1-t0; t0 = t1
PPrimeT1 ==
  /\ ppc = "prime_t1"
  /\ \E c \in ClockReads(now) : now' = c /\ t1' = c
  /\ dt' = Elapsed(t1', t0)
  /\ t0' = t1'
  /\ ppc' = "tinit"
  /\ UNCHANGED <<rk, config, shared, paused, y, t, pgi, rlocal, history>>

\* (fixed step: output_state(self._t0));  t = copy.copy(self._t0)
PTInit ==
  /\ ppc = "tinit"
  /\ t' = T0
  /\ ppc' = "head"
  /\ UNCHANGED <<rk, config, shared, paused, y, dt, t0, t1, pgi, rlocal, now,
                 history>>

\* while t <= self._tf and not self._quit.value:
LoopCondition(tt, final, q) == tt <= final /\ q = 0

PLoopHead ==
  /\ ppc = "head"
  /\ ppc' = IF LoopCondition(t, tf, quit) THEN "rk4" ELSE "exit"
  /\ UNCHANGED <<rk, config, shared, paused, y, t, dt, t0, t1, pgi, rlocal, now,
                 history>>

\* self._RK4(self._aircraft, t, self._dt)
PIntegrate ==
  /\ ppc = "rk4"
  /\ y' = RK4(field, y, t, dt)
  /\ nsteps' = Bump(nsteps)
  /\ ppc' = "norm"
  /\ UNCHANGED <<rk, config, shared, paused, t, dt, t0, t1, pgi, rlocal, now,
                 nprime, slotStep, rStep>>

\* self._aircraft.normalize()
PNormalizeSkipped ==
  /\ ppc = "norm"
  /\ ppc' = "time"
  /\ UNCHANGED <<rk, config, shared, paused, y, t, dt, t0, t1, pgi, rlocal, now,
                 history>>
PNormalize ==
  /\ ppc = "norm"
  /\ y' = Normalize(y)
  /\ ppc' = "time"
  /\ UNCHANGED <<rk, config, shared, paused, t, dt, t0, t1, pgi, rlocal, now,
                 history>>

\* # Handle graphics only things
\* if self._render_graphics: (publish, then the input loop)
AfterStepAlwaysGraphics(gfx) == "pub_y"
AfterStep(gfx) == IF gfx THEN "pub_y" ELSE "head"

\* if self._real_time: t1 = time.time(); self._dt = t1-t0; t0 = t1
\* t += self._dt; output_state(t)
PStepTime ==
  /\ ppc = "time"
  /\ IF real_time
       THEN /\ \E c \in ClockReads(now) : now' = c /\ t1' = c
            /\ dt' = Elapsed(t1', t0)
            /\ t0' = t1'
       ELSE UNCHANGED <<t1, dt, t0, now>>
  /\ t' = t + dt'
  /\ ppc' = AfterStep(render_graphics)
  /\ UNCHANGED <<rk, config, shared, paused, y, pgi, rlocal, history>>

\* ---- passing the step to the graphics (only if self._render_graphics)
SetSlots(buf, lo, vals) ==
  [i \in 1..NSlots |-> IF i >= lo /\ i < lo + Len(vals) THEN vals[i - lo + 1]
                       ELSE buf[i]]
Tag(tags, k, n) == [tags EXCEPT ![k] = n]

\* self._state_manager[:13] = self._aircraft.y[:]
PPubState ==
  /\ ppc = "pub_y"
  /\ state_manager' = SetSlots(state_manager, 1, y)
  /\ slotStep' = Tag(slotStep, 1, nsteps)
  /\ ppc' = "pub_dt"
  /\ UNCHANGED <<rk, config, quit, pause, graphics_ready, view, flight_data,
                 aircraft_graphics_info, control_settings, paused, y, t, dt,
                 t0, t1, pgi, rlocal, now, nsteps, nprime, rStep>>

\* self._state_manager[13] = self._dt
PPubDt ==
  /\ ppc = "pub_dt"
  /\ state_manager' = SetSlots(state_manager, 14, <<dt>>)
  /\ slotStep' = Tag(slotStep, 2, nsteps)
  /\ ppc' = "pub_t"
  /\ UNCHANGED <<rk, config, quit, pause, graphics_ready, view, flight_data,
                 aircraft_graphics_info, control_settings, paused, y, t, dt,
                 t0, t1, pgi, rlocal, now, nsteps, nprime, rStep>>

\* self._state_manager[14] = t
PPubT ==
  /\ ppc = "pub_t"
  /\ state_manager' = SetSlots(state_manager, 15, <<t>>)
  /\ slotStep' = Tag(slotStep, 3, nsteps)
  /\ ppc' = "pub_ts"
  /\ UNCHANGED <<rk, config, quit, pause, graphics_ready, view, flight_data,
                 aircraft_graphics_info, control_settings, paused, y, t, dt,
                 t0, t1, pgi, rlocal, now, nsteps, nprime, rStep>>

\* self._state_manager[15] = t1; t1 is assigned only on the real-time paths,
\* reading it unassigned raises UnboundLocalError and ends the process
PPubTs ==
  /\ ppc = "pub_ts"
  /\ IF t1 = Unbound
       THEN /\ ppc' = "crashed"
            /\ UNCHANGED <<state_manager, slotStep>>
       ELSE /\ state_manager' = SetSlots(state_manager, 16, <<t1>>)
            /\ slotStep' = Tag(slotStep, 4, nsteps)
            /\ ppc' = "pub_ctrl"
  /\ UNCHANGED <<rk, config, quit, pause, graphics_ready, view, flight_data,
                 aircraft_graphics_info, control_settings, paused, y, t, dt,
                 t0, t1, pgi, rlocal, now, nsteps, nprime, rStep>>

\* for key, value in self._aircraft._controls.items(): ...
PPubCtrl ==
  /\ ppc = "pub_ctrl"
  /\ control_settings' = TRUE
  /\ ppc' = "poll"
  /\ UNCHANGED <<rk, config, state_manager, quit, pause, graphics_ready, view,
                 flight_data, aircraft_graphics_info, paused, y, t, dt, t0,
                 t1, pgi, rlocal, now, history>>

\* ---- the input loop (while True:)
\* x.value = not x.value
Toggle(v) == IF v = 0 THEN 1 ELSE 0
QuitInput(q) == Toggle(q)
NextView(v) == (v + 1) % NumViews

\* inputs = self._aircraft._controller.get_input() and the four flag updates
PPoll ==
  /\ ppc = "poll"
  /\ \E inputs \in SUBSET InputKeys :
       /\ pause' = IF "pause" \in inputs THEN Toggle(pause) ELSE pause
       /\ flight_data' = IF "data" \in inputs THEN Toggle(flight_data)
                         ELSE flight_data
       /\ quit' = IF "quit" \in inputs THEN QuitInput(quit) ELSE quit
       /\ view' = IF "view" \in inputs THEN NextView(view) ELSE view
  /\ ppc' = "pause"
  /\ UNCHANGED <<rk, config, state_manager, graphics_ready,
                 aircraft_graphics_info, control_settings, paused, y, t, dt,
                 t0, t1, pgi, rlocal, now, history>>

\* self._state_manager[13] = 0.0 # The physics isn't stepping...
PauseMarkMissing(buf) == buf
PauseMark(buf) == SetSlots(buf, 14, <<0>>)

\* if self._pause.value and not self._paused: ...
PPause ==
  /\ ppc = "pause"
  /\ IF pause # 0 /\ ~paused
       THEN /\ paused' = TRUE
            /\ state_manager' = PauseMark(state_manager)
       ELSE UNCHANGED <<paused, state_manager>>
  /\ ppc' = "break"
  /\ UNCHANGED <<rk, config, quit, pause, graphics_ready, view, flight_data,
                 aircraft_graphics_info, control_settings, y, t, dt, t0, t1,
                 pgi, rlocal, now, history>>

\* t0 = time.time() # So as to not throw off the integration
ResumeReferenceKept(old, c) == old
ResumeReference(old, c) == c

\* if not self._pause.value: ... break
PBreak ==
  /\ ppc = "break"
  /\ IF pause = 0
       THEN /\ paused' = FALSE
            /\ IF paused /\ real_time
                 THEN \E c \in ClockReads(now) :
                        now' = c /\ t0' = ResumeReference(t0, c)
                 ELSE UNCHANGED <<t0, now>>
            /\ ppc' = "head"
       ELSE /\ ppc' = "poll"
            /\ UNCHANGED <<paused, t0, now>>
  /\ UNCHANGED <<rk, config, shared, y, t, dt, t1, pgi, rlocal, history>>

\* self._quit.value = 1
PExit ==
  /\ ppc = "exit"
  /\ quit' = 1
  /\ ppc' = "done"
  /\ UNCHANGED <<rk, config, state_manager, pause, graphics_ready, view,
                 flight_data, aircraft_graphics_info, control_settings,
                 paused, y, t, dt, t0, t1, pgi, rlocal, now, history>>

Physics ==
  \/ PLoad \/ PGfxInfo \/ PWait \/ PT0 \/ PPrime \/ PPrimeNorm \/ PPrimeT1
  \/ PTInit \/ PLoopHead \/ PIntegrate \/ PNormalize \/ PStepTime
  \/ PPubState \/ PPubDt \/ PPubT \/ PPubTs \/ PPubCtrl
  \/ PPoll \/ PPause \/ PBreak \/ PExit

PhysicsTerminated == ppc \in {"done", "crashed"}

\* ================================================================= run_sim
\* self._physics_process.start()
RStart ==
  /\ rpc = "start"
  /\ ppc' = "load"
  /\ rpc' = IF render_graphics THEN "meta" ELSE "join"
  /\ UNCHANGED <<rk, config, shared, paused, y, t, dt, t0, t1, pgi, got, ry, rdt,
                 rt, rts, cam, now, history>>

RequiredKeySet == {RequiredKeys[i] : i \in 1..Len(RequiredKeys)}

\* one read of self._aircraft_graphics_info[key] inside the try block; a
\* KeyError restarts the block
RMeta ==
  /\ rpc = "meta"
  /\ LET key == RequiredKeys[Cardinality(got) + 1]
     IN  IF key \in aircraft_graphics_info
           THEN /\ got' = got \cup {key}
                /\ rpc' = IF got' = RequiredKeySet THEN "ready" ELSE "meta"
           ELSE /\ got' = {}
                /\ rpc' = "meta"
  /\ UNCHANGED <<rk, config, shared, plocal, ry, rdt, rt, rts, cam, now,
                 history>>

\* self._graphics_ready.value = 1
RReady ==
  /\ rpc = "ready"
  /\ graphics_ready' = 1
  /\ rpc' = "loop"
  /\ UNCHANGED <<rk, config, state_manager, quit, pause, view, flight_data,
                 aircraft_graphics_info, control_settings, plocal, got, ry,
                 rdt, rt, rts, cam, now, history>>

\* while not self._quit.value:
RLoop ==
  /\ rpc = "loop"
  /\ rpc' = IF quit = 0 THEN "f_quit" ELSE "join"
  /\ UNCHANGED <<rk, config, shared, plocal, got, ry, rdt, rt, rts, cam, now,
                 history>>

\* self._physics_process.join()
RJoin ==
  /\ rpc = "join"
  /\ PhysicsTerminated
  /\ rpc' = "finished"
  /\ UNCHANGED <<rk, config, shared, plocal, got, ry, rdt, rt, rts, cam, now,
                 history>>

\* ======================================================== _update_graphics
\* the locals of a frame (y, dt_physics, t_physics, the timestamp) end with it
NoTags == <<0, 0, 0, 0>>
FrameReturn ==
  /\ rpc' = "loop"
  /\ ry' = Zero13 /\ rdt' = 0 /\ rt' = 0 /\ rts' = 0 /\ cam' = "none"
  /\ rStep' = NoTags

\* glClear(...); if self._quit.value: return True
RFQuit ==
  /\ rpc = "f_quit"
  /\ rpc' = IF quit # 0 THEN "loop" ELSE "f_y"
  /\ UNCHANGED <<rk, config, shared, plocal, got, ry, rdt, rt, rts, cam, now,
                 history>>

\* (y == 0.0).all()
IsUninitializedAny(yv) == \E i \in 1..NState : yv[i] = 0
IsUninitialized(yv) == \A i \in 1..NState : yv[i] = 0

\* y = np.array(copy.deepcopy(self._state_manager[:13]));
\* if (y == 0.0).all(): return False
RFState ==
  /\ rpc = "f_y"
  /\ LET yv == [i \in 1..NState |-> state_manager[i]]
     IN  IF IsUninitialized(yv)
           THEN FrameReturn
           ELSE /\ ry' = yv
                /\ rStep' = Tag(rStep, 1, slotStep[1])
                /\ rpc' = "f_dt"
                /\ UNCHANGED <<rdt, rt, rts, cam>>
  /\ UNCHANGED <<rk, config, shared, plocal, got, now, nsteps, nprime, slotStep>>

\* dt_physics = self._state_manager[13]
RFDt ==
  /\ rpc = "f_dt"
  /\ rdt' = state_manager[14]
  /\ rStep' = Tag(rStep, 2, slotStep[2])
  /\ rpc' = "f_t"
  /\ UNCHANGED <<rk, config, shared, plocal, got, ry, rt, rts, cam, now,
                 nsteps, nprime, slotStep>>

\* t_physics = self._state_manager[14]
RFT ==
  /\ rpc = "f_t"
  /\ rt' = state_manager[15]
  /\ rStep' = Tag(rStep, 3, slotStep[3])
  /\ rpc' = "f_ts"
  /\ UNCHANGED <<rk, config, shared, plocal, got, ry, rdt, rts, cam, now,
                 nsteps, nprime, slotStep>>

\* graphics_delay = time.time()-self._state_manager[15]
RFTs ==
  /\ rpc = "f_ts"
  /\ rts' = state_manager[16]
  /\ rStep' = Tag(rStep, 4, slotStep[4])
  /\ rpc' = "f_draw"
  /\ UNCHANGED <<rk, config, shared, plocal, got, ry, rdt, rt, cam, now,
                 nsteps, nprime, slotStep>>

\* if y[8] > 0.0:
GroundContactOrNaN(yv) == fgt(yv[9], 0) \/ IsNaN(yv[1])
GroundContact(yv) == fgt(yv[9], 0)

\* the clock tick, the mesh update, the flight data (the last use of
\* dt_physics) and the crash check: on ground contact the Game Over screen and
\* self._quit.value = 1
GameOverToggles(q) == Toggle(q)
GameOver(q) == 1

RFDraw ==
  /\ rpc = "f_draw"
  /\ IF GroundContact(ry)
       THEN /\ quit' = GameOver(quit)
            /\ FrameReturn
       ELSE /\ rpc' = "f_v0"
            /\ rdt' = 0 /\ rStep' = NoTags
            /\ UNCHANGED <<quit, ry, rt, rts, cam>>
  /\ UNCHANGED <<rk, config, state_manager, pause, graphics_ready, view,
                 flight_data, aircraft_graphics_info, control_settings,
                 plocal, got, now, nsteps, nprime, slotStep>>

\* if self._view.value == 0: third person view (the last use of t_physics and
\* graphics_delay)
RFView0 ==
  /\ rpc = "f_v0"
  /\ IF view = 0
       THEN cam' = "third" /\ rpc' = "f_rest"
       ELSE cam' = cam /\ rpc' = "f_v1"
  /\ rt' = 0 /\ rts' = 0
  /\ UNCHANGED <<rk, config, shared, plocal, got, ry, rdt, now, history>>

\* elif self._view.value == 1: cockpit view; with neither branch taken the
\* local 'view' is unassigned
RFView1 ==
  /\ rpc = "f_v1"
  /\ cam' = IF view = 1 THEN "cockpit" ELSE cam
  /\ rpc' = "f_rest"
  /\ UNCHANGED <<rk, config, shared, plocal, got, ry, rdt, rt, rts, now, history>>

\* the ground quads (quad.set_view(view)), then the NaN banner or the flight
\* data overlay, then pygame.display.flip()
RFRest ==
  /\ rpc = "f_rest"
  /\ IF cam = "none"
       THEN /\ rpc' = "crashed"
            /\ UNCHANGED <<ry, rdt, rt, rts, cam, rStep>>
       ELSE FrameReturn
  /\ UNCHANGED <<rk, config, shared, plocal, got, now, nsteps, nprime, slotStep>>

Render ==
  \/ RStart \/ RMeta \/ RReady \/ RLoop \/ RJoin
  \/ RFQuit \/ RFState \/ RFDt \/ RFT \/ RFTs
  \/ RFDraw \/ RFView0 \/ RFView1 \/ RFRest

\* ===================================================== the two processes
Next == Physics \/ Render

Spec == Init /\ [][Next]_vars

\* both are operating-system processes, each of which keeps being scheduled
FairSpec == Spec /\ WF_vars(Physics) /\ WF_vars(Render)

\* ------------------------------------------------- the startup of a run
\* both processes up to the first running step of the physics: the handshake
\* of run_sim and _run_physics and the frames drawn meanwhile
StartupPhysics ==
  \/ PLoad \/ PGfxInfo \/ PWait \/ PT0 \/ PPrime \/ PPrimeNorm \/ PPrimeT1
  \/ PTInit \/ PLoopHead \/ PIntegrate

StartupRender == RStart \/ RMeta \/ RReady \/ RLoop \/ RFQuit \/ RFState

StartupNext == StartupPhysics \/ StartupRender

StartupSpec ==
  /\ Init /\ [][StartupNext]_vars
  /\ WF_vars(StartupPhysics) /\ WF_vars(StartupRender)

\* ============================================= one call of _RK4, by line
\* the aircraft states a single call is tried on
RkStates == {InitialState(z) : z \in {0 - 1, 0, 2}}
             \cup {[i \in 1..NState |-> IF i = 10 THEN 1 ELSE IF i < 4 THEN 2 ELSE 0 - 1]}

notrk == <<config, shared, ppc, paused, t, dt, t0, t1, pgi, rlocal, now,
           history>>

RkInit ==
  /\ real_time = FALSE
  /\ render_graphics = FALSE
  /\ tf = TfFixed
  /\ field \in RkFields
  /\ info = FullInfo
  /\ y \in RkStates
  /\ dt \in 0..RkMaxDt
  /\ Constructed

\* which state a trial state or the result is built on: the copy y0
TrialBaseCurrent(copy, current) == current
TrialBase(copy, current) == copy

\* y0 = copy.deepcopy(aircraft.y); k0 = aircraft.dy_dt(t)
RkBegin ==
  /\ rk.pc = "idle"
  /\ rk' = [rk EXCEPT !.pc = "k0", !.y0 = y, !.k0 = dy_dt(field, y, t)]
  /\ UNCHANGED <<y, notrk>>

\* aircraft.y = y0+0.5*dt*k0; k1 = aircraft.dy_dt(t+0.5*dt)
RkStage1 ==
  /\ rk.pc = "k0"
  /\ y' = Trial(TrialBase(rk.y0, y), rk.k0, dt, 2)
  /\ rk' = [rk EXCEPT !.pc = "k1", !.k1 = dy_dt(field, y', t + (dt \div 2))]
  /\ UNCHANGED notrk

\* aircraft.y = y0+0.5*dt*k1; k2 = aircraft.dy_dt(t+0.5*dt)
RkStage2 ==
  /\ rk.pc = "k1"
  /\ y' = Trial(TrialBase(rk.y0, y), rk.k1, dt, 2)
  /\ rk' = [rk EXCEPT !.pc = "k2", !.k2 = dy_dt(field, y', t + (dt \div 2))]
  /\ UNCHANGED notrk

\* aircraft.y = y0+dt*k2; k3 = aircraft.dy_dt(t+dt)
RkStage3 ==
  /\ rk.pc = "k2"
  /\ y' = Trial(TrialBase(rk.y0, y), rk.k2, dt, 1)
  /\ rk' = [rk EXCEPT !.pc = "k3", !.k3 = dy_dt(field, y', t + dt)]
  /\ UNCHANGED notrk

\* aircraft.y = y0+0.16666666666666666666667*(k0+2*k1+2*k2+k3)*dt
RkFinal ==
  /\ rk.pc = "k3"
  /\ y' = RK4Result(TrialBase(rk.y0, y), rk.k0, rk.k1, rk.k2, rk.k3, dt)
  /\ rk' = [rk EXCEPT !.pc = "done"]
  /\ UNCHANGED notrk

RkNext == RkBegin \/ RkStage1 \/ RkStage2 \/ RkStage3 \/ RkFinal

RkSpec == RkInit /\ [][RkNext]_vars

\* ================================================================ claims
LoopPcs == {"head", "rk4", "norm", "time", "pub_y", "pub_dt", "pub_t", "pub_ts",
            "pub_ctrl", "poll", "pause", "break"}
InputLoopPcs == {"poll", "pause", "break"}

\* C1: the 16 values one render frame consumes (the state, the step size, the
\* simulation time, the timestamp) were all written by the same physics step.
C1_FrameSeesOneStep ==
  rpc = "f_draw" => \A i, j \in 1..4 : rStep[i] = rStep[j]

\* C2: once the quit flag is set it is never cleared again.
C2_QuitOneWay == [][quit = 1 => quit' = 1]_vars

\* C3: once the quit flag is set, or simulation time is past the final time,
\* while the physics is in its simulation loop, the physics process
\* eventually terminates.
C3_QuitLeadsToExit ==
  (ppc \in LoopPcs /\ (quit = 1 \/ t > tf)) ~> PhysicsTerminated

\* C4: whenever the physics process has terminated, the quit flag is set.
C4_TerminatedImpliesQuit == PhysicsTerminated => quit = 1

\* C5: up to the first publish the shared buffer is all-zero and a render
\* frame that reads it is skipped; from the first publish on, a render frame
\* that reads the state never takes it for uninitialized again.
C5_Sentinel ==
  /\ [](slotStep[1] = 0 => \A i \in 1..NSlots : state_manager[i] = 0)
  /\ [][(rpc = "f_y" /\ rpc' # rpc) =>
          rpc' = IF slotStep[1] = 0 THEN "loop" ELSE "f_dt"]_vars

C5_Witness == real_time /\ rpc = "f_dt" /\ slotStep[1] > 0 /\ ry[1] = 0

\* C6: while the physics is paused it stays in its input loop, the step-size
\* slot reads 0, and neither simulation time, the aircraft state, the step
\* count nor the shared buffer changes; no step of the input loop (the pause
\* toggles included) changes simulation time.
C6_PausedNoProgress ==
  /\ [](paused => (state_manager[14] = 0 /\ ppc \in InputLoopPcs))
  /\ [][paused => (t' = t /\ y' = y /\ nsteps' = nsteps
                   /\ state_manager' = state_manager)]_vars
  /\ [][(ppc \in InputLoopPcs) => (t' = t)]_vars

C6_Witness == paused /\ pause = 0 /\ ppc = "break" /\ t > 0 /\ dt > 0

\* C7: a render step sets the quit flag exactly when it is the crash check of
\* a frame whose vertical position is above 0; every other render step, the
\* crash check of a frame with a NaN airspeed included, leaves it unchanged.
C7_QuitOnlyOnGround ==
  [][rpc' # rpc =>
       quit' = IF rpc = "f_draw" /\ ~IsNaN(ry[9]) /\ ry[9] > 0 THEN 1
               ELSE quit]_vars

C7_Witness == real_time /\ rpc = "f_v0" /\ IsNaN(ry[1]) /\ quit = 0

\* C8: a fixed-step run from start time 0 to tf = N*dt ends having taken
\* exactly N steps, and with a zero derivative in its initial state.
C8_ExactlyNSteps ==
  (ppc = "done" /\ ~real_time /\ (tf - T0) % dt = 0) =>
    /\ nsteps * dt = tf - T0
    /\ field = "zero" => y = InitialState(InitialZ)

\* C9: every publish writes all 16 slots (state, step size, time, timestamp)
\* and never fails part-way for lack of a timestamp.
C9_PublishWritesAll ==
  /\ ppc # "crashed"
  /\ ppc = "pub_ctrl" =>
       /\ \A i \in 1..NState : state_manager[i] = y[i]
       /\ state_manager[14] = dt
       /\ state_manager[15] = t
       /\ state_manager[16] = t1 /\ t1 # Unbound

\* C10: with rendering enabled, as long as the render-ready flag is unset the
\* physics has taken no step (priming or running) and published nothing; and
\* the flag is set only when the render side has read every required key.
C10_Handshake ==
  /\ (render_graphics /\ graphics_ready = 0) =>
       /\ nsteps = 0 /\ nprime = 0
       /\ \A i \in 1..NSlots : state_manager[i] = 0
  /\ graphics_ready = 1 =>
       /\ got = RequiredKeySet
       /\ RequiredKeySet \subseteq aircraft_graphics_info

C10_Witness ==
  real_time /\ render_graphics /\ graphics_ready = 1 /\ nsteps > 0

\* C11: for a derivative that is the same constant vector c at every state
\* and time, one _RK4 call of step size dt turns state y0 into exactly
\* y0 + c*dt, dt = 0 included; the call computed line by line and the whole
\* call agree.
C11_RK4Exact ==
  (rk.pc = "done" /\ field \in ConstantFields) =>
    /\ y = [i \in 1..NState |->
              fadd(rk.y0[i], fmul(dy_dt(field, rk.y0, t)[i], dt))]
    /\ y = RK4(field, rk.y0, t, dt)

C11_Witness == rk.pc = "done" /\ field = "climb" /\ dt = 2 /\ y # rk.y0

\* C12: every RK4 step, the priming one and the running ones, is followed
\* by the quaternion normalisation before the state is used again: outside
\* the two points between a step and its normalisation the aircraft state has
\* a unit quaternion, so the base of every RK4 step and every state published
\* to the buffer is normalised.
UnitQuat(e0, e1, e2, e3) ==
  /\ ~IsNaN(e0) /\ ~IsNaN(e1) /\ ~IsNaN(e2) /\ ~IsNaN(e3)
  /\ e0 * e0 + e1 * e1 + e2 * e2 + e3 * e3 = 1

C12_NormalizedAfterEveryStep ==
  /\ (ppc \notin {"idle", "load", "prime_norm", "norm"}) =>
       UnitQuat(y[10], y[11], y[12], y[13])
  /\ (slotStep[1] > 0) =>
       UnitQuat(state_manager[10], state_manager[11], state_manager[12],
                state_manager[13])

C12_Witness ==
  /\ field = "sink" /\ ppc = "pub_dt" /\ slotStep[1] > 0
  /\ state_manager[9] # InitialZ

\* C13: in real-time mode the wall-clock reference is reset when a pause
\* ends, so the step size computed by the first step after the resume is the
\* wall time that passed since the resume was observed, as the step size of
\* every step is the wall time since the latest clock reading of the loop; the
\* time spent paused enters no step size and is not added to the simulation
\* time, which advances by exactly that step size.
C13_ResumeResetsReference ==
  [][(real_time /\ ppc = "time" /\ ppc' # "time") =>
       (dt' = now' - now /\ t' = t + (now' - now))]_vars

C13_Witness ==
  real_time /\ ppc = "time" /\ t1 # Unbound /\ t0 > t1 /\ ~paused

BeforePrimePcs == {"idle", "load", "gfx", "wait", "t0", "prime"}
PrimingPcs == {"prime_norm", "prime_t1"}

C15_StateKeptDuringStep ==
  (rk.pc \in {"k0", "k1", "k2", "k3"}) => y = rk.y0

\* C15, amended: an RK4 step takes a copy y0 of the pre-step state and keeps
\* it to the end; the aircraft state keeps the pre-step value only while k0 is
\* evaluated and is then overwritten by each trial state, y0 + dt/2*k0,
\* y0 + dt/2*k1 and y0 + dt*k2, at which k1, k2 and k3 are evaluated; every
\* trial state and the final result are computed from the copy y0 as base,
\* never from the trial state before.
C15_TrialStatesFromCopy ==
  /\ [](/\ (rk.pc = "k0") => (y = rk.y0 /\ rk.k0 = dy_dt(field, rk.y0, t))
        /\ (rk.pc = "k1") =>
             /\ y = Trial(rk.y0, rk.k0, dt, 2)
             /\ rk.k1 = dy_dt(field, y, t + (dt \div 2))
        /\ (rk.pc = "k2") =>
             /\ y = Trial(rk.y0, rk.k1, dt, 2)
             /\ rk.k2 = dy_dt(field, y, t + (dt \div 2))
        /\ (rk.pc = "k3") =>
             /\ y = Trial(rk.y0, rk.k2, dt, 1)
             /\ rk.k3 = dy_dt(field, y, t + dt)
        /\ (rk.pc = "done") => y = RK4(field, rk.y0, t, dt))
  /\ [][/\ (rk.pc = "idle" /\ rk'.pc # "idle") => (rk'.y0 = y /\ y' = y)
        /\ (rk.pc # "idle") => rk'.y0 = rk.y0]_vars

C15_Witness ==
  rk.pc = "k2" /\ field = "grow" /\ dt = 2 /\ y # rk.y0 /\ rk.k1 # rk.k0

GraphicsOnlyPcs == {"gfx", "wait", "pub_y", "pub_dt", "pub_t", "pub_ts",
                    "pub_ctrl", "poll", "pause", "break"}

C17_RenderWritesOnlyReadyAndQuit ==
  [][(ppc' = ppc \/ ppc = "idle") =>
       /\ state_manager' = state_manager
       /\ control_settings' = control_settings
       /\ pause' = pause /\ view' = view /\ flight_data' = flight_data
       /\ graphics_ready' \in {graphics_ready, 1}
       /\ quit' \in {quit, 1}]_vars

C17_Witness ==
  /\ ppc = "time" /\ quit = 1 /\ graphics_ready = 1 /\ rpc = "loop"
  /\ slotStep[1] > 0 /\ control_settings

\* C18: with rendering enabled and every key the render side reads present
\* in the aircraft's graphics info, under fair scheduling of both processes
\* the render side eventually sets the render-ready flag and the physics
\* eventually leaves its wait loop and takes its first running step.
C18_HandshakeCompletes ==
  (render_graphics /\ info = FullInfo) ~> (graphics_ready = 1 /\ nsteps >= 1)

C18_Witness ==
  /\ render_graphics /\ info = FullInfo /\ graphics_ready = 1 /\ nsteps = 1
  /\ ppc = "norm" /\ rpc = "f_quit"

\* C19: with a non-decreasing wall clock the published simulation time (the
\* 15th value of the buffer) never decreases, across a pause and resume too,
\* and each publish of it writes the time published before plus the step size
\* of the step being published, which is not negative.
C19_PublishedTimeMonotone ==
  [][/\ state_manager'[15] >= state_manager[15]
     /\ (ppc = "pub_t" /\ ppc' # "pub_t") =>
          /\ dt >= 0
          /\ state_manager'[15] = state_manager[15] + dt]_vars

C19_Witness ==
  /\ real_time /\ ppc = "pub_ts" /\ slotStep[3] >= 2 /\ dt = 1
  /\ state_manager[15] = 1

\* C20: the active-view index is always one of the available views, and the
\* render frame always matches one of its two view branches, so that past the
\* branches the frame has a view matrix.
C20_FrameMatchesAView ==
  /\ view \in 0..(NumViews - 1)
  /\ (rpc = "f_rest") => cam \in {"third", "cockpit"}

====
